---- MODULE Spec2Model ----
(***************************************************************************)
(* Correction detector of claude-correct-habits.                           *)
(*                                                                         *)
(* Messages, responses and code fragments are character strings; the       *)
(* regular expressions of the source are transcribed one by one into a     *)
(* small regular-expression interpreter (Ends), so that a signal matches   *)
(* a message here exactly when its RegExp matches it in the source.        *)
(*                                                                         *)
(* Numbers: every weight of the source is a multiple of 0.05 and every     *)
(* multiplier a multiple of 0.05, so confidences are kept exactly, as      *)
(* integers in units of 0.00001 (W(95) is 0.95, One is 1.0).               *)
(***************************************************************************)
EXTENDS Integers, Sequences, FiniteSets, TLC

VARIABLES
  message,        \* analyzeMessage: the message argument (a JS value)
  lastResponse,   \* analyzeMessage: the lastResponse argument (null or record)
  result,         \* the DetectionResult returned by the last analyzeMessage
  locals,         \* analyzeMessage's local variables at its return
  earlier,        \* the call of analyzeMessage made before the current one, if any
  pc,             \* position of the activation being modelled
  now,            \* Date.now(), milliseconds
  lastResponseFile, \* content of .claude/correct-habits/last-response.json
  patternsFile,   \* content of .claude/correct-habits/patterns.json
  pendingFile,    \* content of .claude/correct-habits/pending.json
  sortedPatterns, \* session start: patternsData.patterns after the sort
  stdin,          \* what the hook read from /dev/stdin
  stdout,         \* what the hook printed (a sequence of payloads)
  exit            \* how the hook's process ended: "none", "ok" or "raised"

vars == <<message, lastResponse, result, locals, earlier, pc, now, lastResponseFile,
          patternsFile, pendingFile, sortedPatterns, stdin, stdout, exit>>

(***************************************************************************)
(* Characters and strings                                                  *)
(***************************************************************************)
Chars(s) == {SubSeq(s, i, i) : i \in 1..Len(s)}

UpperAlpha == "ABCDEFGHIJKLMNOPQRSTUVWXYZ"

LowerAlpha == "abcdefghijklmnopqrstuvwxyz"

Digits == "0123456789"

\* \w
WordChars == Chars(UpperAlpha) \cup Chars(LowerAlpha) \cup Chars(Digits) \cup {"_"}

\* \s
SpaceChars == {" ", "\n", "\t", "\r", "\f"}

\* The character \x60 (a string cannot hold it except before an apostrophe)
BackTick == SubSeq("`'", 1, 1)

\* [\x60'"]
QuoteChars == {BackTick, "'", "\""}

\* [\w\-_.]
IdentChars == WordChars \cup {"-", "_", "."}

toLowerChar ==
  [c \in Chars(UpperAlpha) |->
     LET i == CHOOSE j \in 1..Len(UpperAlpha) : SubSeq(UpperAlpha, j, j) = c
     IN  SubSeq(LowerAlpha, i, i)]

RECURSIVE toLowerCase(_)
toLowerCase(s) ==
  IF s = "" THEN ""
  ELSE LET c == SubSeq(s, 1, 1)
       IN  (IF c \in DOMAIN toLowerChar THEN toLowerChar[c] ELSE c)
             \o toLowerCase(SubSeq(s, 2, Len(s)))

\* String.prototype.includes
includes(s, sub) ==
  \E i \in 0..(Len(s) - Len(sub)) : SubSeq(s, i + 1, i + Len(sub)) = sub

Min(a, b) == IF a <= b THEN a ELSE b

Max(a, b) == IF a >= b THEN a ELSE b

SetMin(S) == CHOOSE m \in S : \A n \in S : m <= n

SetMax(S) == CHOOSE m \in S : \A n \in S : m >= n

(***************************************************************************)
(* Regular expressions.  Ends(r, s, P) is the set of positions at which a  *)
(* match of r can end when it starts at one of the positions P of s        *)
(* (a position is the number of characters before it).                     *)
(***************************************************************************)
Lit(s) == [t |-> "lit", s |-> s]

Cls(c) == [t |-> "cls", c |-> c]

NotCls(c) == [t |-> "not", c |-> c]

Cat(rs) == [t |-> "cat", rs |-> rs]

Alt(rs) == [t |-> "alt", rs |-> rs]

Opt(r) == [t |-> "opt", r |-> r]

Star(r) == [t |-> "star", r |-> r]

Plus(r) == [t |-> "plus", r |-> r]

\* \b
B == [t |-> "wb"]

\* (w1|w2|...)
Words(ws) == Alt([k \in 1..Len(ws) |-> Lit(ws[k])])

\* \s*
S0 == Star(Cls(SpaceChars))

\* \s+
S1 == Plus(Cls(SpaceChars))

\* don'?t
Dont == Cat(<<Lit("don"), Opt(Lit("'")), Lit("t")>>)

\* that'?s
Thats == Cat(<<Lit("that"), Opt(Lit("'")), Lit("s")>>)

\* [\x60'"]
Q == Cls(QuoteChars)

\* [\w\-_.]+
Ident == Plus(Cls(IdentChars))

IsWordAt(s, p) == p >= 1 /\ p <= Len(s) /\ SubSeq(s, p, p) \in WordChars

RECURSIVE Ends(_, _, _)
RECURSIVE CatEnds(_, _, _, _)
RECURSIVE StarEnds(_, _, _)

CatEnds(rs, k, s, P) ==
  IF k > Len(rs) \/ P = {} THEN P
  ELSE CatEnds(rs, k + 1, s, Ends(rs[k], s, P))

StarEnds(r, s, P) ==
  LET Q1 == P \cup Ends(r, s, P)
  IN  IF Q1 = P THEN P ELSE StarEnds(r, s, Q1)

Ends(r, s, P) ==
  CASE r.t = "lit" ->
         {p + Len(r.s) : p \in {q \in P : /\ q + Len(r.s) <= Len(s)
                                          /\ SubSeq(s, q + 1, q + Len(r.s)) = r.s}}
    [] r.t = "cls" ->
         {p + 1 : p \in {q \in P : q < Len(s) /\ SubSeq(s, q + 1, q + 1) \in r.c}}
    [] r.t = "not" ->
         {p + 1 : p \in {q \in P : q < Len(s) /\ SubSeq(s, q + 1, q + 1) \notin r.c}}
    [] r.t = "cat" -> CatEnds(r.rs, 1, s, P)
    [] r.t = "alt" -> UNION {Ends(r.rs[k], s, P) : k \in 1..Len(r.rs)}
    [] r.t = "opt" -> P \cup Ends(r.r, s, P)
    [] r.t = "star" -> StarEnds(r.r, s, P)
    [] r.t = "plus" -> StarEnds(r.r, s, Ends(r.r, s, P))
    [] r.t = "wb" -> {p \in P : IsWordAt(s, p) # IsWordAt(s, p + 1)}

\* RegExp.prototype.test of a regular expression without the i flag
test(r, s) == Ends(r, s, 0..Len(s)) # {}

\* RegExp.prototype.test of a regular expression with the i flag: the
\* literals of the tables below are lower case and the classes hold both
\* cases, so the match is made on the lower-cased subject
testI(r, s) == test(r, toLowerCase(s))

\* The start of the leftmost match of r in s at or after position from
\* (-1 when there is none)
firstStart(r, s, from) ==
  IF Ends(r, s, from..Len(s)) = {} THEN 0 - 1
  ELSE SetMin({i \in from..Len(s) : Ends(r, s, {i}) # {}})

\* String.prototype.match of /pre(grp)post/i: the text of the capture group
\* of the leftmost match, <<>> when there is no match.  In every pattern
\* of the source that captures, grp is [\w\-_.]+ between two quote
\* characters, which are outside the class: the group of a match is the
\* whole run, whatever the order of backtracking.
capture(pre, grp, post, s) ==
  LET ls == toLowerCase(s)
      i0 == firstStart(Cat(<<pre, grp, post>>), ls, 0)
      ends(g) == {e \in Ends(grp, ls, {g}) : Ends(post, ls, {e}) # {}}
      g0 == SetMin({g \in Ends(pre, ls, {i0}) : ends(g) # {}})
      g1 == SetMax(ends(g0))
  IN  IF i0 < 0 THEN <<>> ELSE <<SubSeq(s, g0 + 1, g1)>>

(***************************************************************************)
(* Numbers                                                                 *)
(***************************************************************************)
\* h hundredths, in units of 0.00001
W(h) == h * 1000

One == W(100)

MIN_MESSAGE_LENGTH == 15

MIN_CONFIDENCE == W(40)

CONTEXT_STALENESS_MS == 5 * 60 * 1000

(***************************************************************************)
(* Signal tables                                                           *)
(***************************************************************************)
skipSignals == <<
  \* /just\s*(this\s*)?(once|time|here|case)/i
  Cat(<<Lit("just"), S0, Opt(Cat(<<Lit("this"), S0>>)),
        Words(<<"once", "time", "here", "case">>)>>),
  \* /only\s*(for\s*)?(this|here|now)/i
  Cat(<<Lit("only"), S0, Opt(Cat(<<Lit("for"), S0>>)),
        Words(<<"this", "here", "now">>)>>),
  \* /this\s*(specific|particular)\s*(case|instance|time)/i
  Cat(<<Lit("this"), S0, Words(<<"specific", "particular">>), S0,
        Words(<<"case", "instance", "time">>)>>),
  \* /don'?t\s*(remember|learn|save)\s*(this|that)/i
  Cat(<<Dont, S0, Words(<<"remember", "learn", "save">>), S0,
        Words(<<"this", "that">>)>>),
  \* /exception/i
  Lit("exception"),
  \* /one-?off/i
  Cat(<<Lit("one"), Opt(Lit("-")), Lit("off")>>),
  \* /temporary|temp\s+fix/i
  Alt(<<Lit("temporary"), Cat(<<Lit("temp"), S1, Lit("fix")>>)>>)
>>

NoHint == "none"

Sig(p, w, h) == [pattern |-> p, weight |-> w, categoryHint |-> h]

correctionSignals == <<
  \* Strong signals
  Sig(Cat(<<B, Words(<<"we", "our">>), S1, Words(<<"always", "never">>), B>>), W(95), NoHint),
  Sig(Cat(<<B, Words(<<"our", "the">>), S1,
            Words(<<"convention", "standard", "pattern", "style", "approach">>), B>>), W(90), NoHint),
  Sig(Cat(<<B, Words(<<"company", "team", "project">>), S1,
            Words(<<"standard", "convention", "rule">>)>>), W(90), NoHint),
  Sig(Cat(<<B, Lit("we"), S1, Alt(<<Dont, Lit("do not")>>), S1,
            Words(<<"use", "allow", "permit">>)>>), W(85), NoHint),
  Sig(Cat(<<B, Lit("always"), S1, Lit("use"), B>>), W(80), NoHint),
  Sig(Cat(<<B, Lit("never"), S1, Lit("use"), B>>), W(80), NoHint),
  \* Medium signals
  Sig(Cat(<<B, Lit("instead"), S1, Words(<<"of", "use">>), B>>), W(70), NoHint),
  Sig(Cat(<<B, Lit("prefer"), S1, Plus(Cls(WordChars)), S1,
            Words(<<"over", "to", "instead">>)>>), W(70), NoHint),
  Sig(Cat(<<B, Lit("should"), S1, Words(<<"always", "never">>), B>>), W(65), NoHint),
  Sig(Cat(<<B, Lit("i"), S1, Words(<<"always", "never", "prefer">>), B>>), W(60), NoHint),
  Sig(Cat(<<B, Thats, S1, Words(<<"not", "wrong", "incorrect">>), B>>), W(55), NoHint),
  Sig(Cat(<<B, Lit("wrong"), S1, Words(<<"approach", "pattern", "way">>), B>>), W(55), NoHint),
  Sig(Cat(<<B, Dont, S1, Words(<<"do", "use", "write">>), S1,
            Opt(Cat(<<Lit("it"), S1>>)), Opt(Cat(<<Lit("like"), S1>>)), Lit("that"), B>>),
      W(50), NoHint),
  \* Weak signals
  Sig(Cat(<<B, Lit("please"), S1, Alt(<<Dont, Lit("change"), Lit("use")>>), B>>), W(35), NoHint),
  Sig(Cat(<<B, Lit("should"), S1, Words(<<"be", "have", "use">>), B>>), W(30), NoHint),
  Sig(Cat(<<B, Lit("no"), Opt(Lit(",")), S0, Alt(<<Lit("actually"), Dont>>), B>>), W(30), NoHint),
  Sig(Cat(<<B, Lit("fix"), S1, Words(<<"this", "that", "the">>), B>>), W(20), NoHint),
  \* Category-specific signals with hints
  Sig(Cat(<<B, Alt(<<Lit("name"), Lit("naming"), Cat(<<Lit("call"), S1, Lit("it")>>),
                     Lit("rename")>>), B>>), W(40), "naming"),
  Sig(Cat(<<B, Alt(<<Lit("import"), Lit("require"),
                     Cat(<<Lit("from"), S1, Cls({"'", "\""})>>)>>)>>), W(40), "imports"),
  Sig(Cat(<<B, Alt(<<Lit("test"), Lit("spec"), Lit("describe"),
                     Cat(<<Lit("it"), S0, Lit("(")>>)>>)>>), W(40), "testing"),
  Sig(Cat(<<B, Words(<<"try", "catch", "throw", "error", "exception">>), B>>),
      W(35), "error-handling"),
  Sig(Cat(<<B, Words(<<"folder", "directory", "structure", "organize">>)>>),
      W(35), "architecture"),
  Sig(Cat(<<B, Words(<<"format", "indent", "spacing", "style", "prettier", "eslint">>)>>),
      W(35), "style")
>>

\* responseCheck of a context-aware signal: absent, or a test of the
\* captured text against response + ' ' + codeWritten
NoCheck == "none"

MustInclude == "includes"

MustNotInclude == "excludes"

CSig(pre, grp, post, w, cw, chk) ==
  [pre |-> pre, grp |-> grp, post |-> post, userPattern |-> Cat(<<pre, grp, post>>),
   weight |-> w, contextWeight |-> cw, responseCheck |-> chk]

Empty == Cat(<<>>)

contextAwareSignals == <<
  \* /\bthat'?s\s+not\s+(what|how)\s+I\s+(meant|wanted)/i
  CSig(Cat(<<B, Thats, S1, Lit("not"), S1, Words(<<"what", "how">>), S1, Lit("i"), S1,
             Words(<<"meant", "wanted">>)>>), Empty, Empty, W(30), W(75), NoCheck),
  \* /\bwhy\s+did\s+you\s+(use|write|put|add|create)/i
  CSig(Cat(<<B, Lit("why"), S1, Lit("did"), S1, Lit("you"), S1,
             Words(<<"use", "write", "put", "add", "create">>)>>), Empty, Empty,
       W(40), W(80), NoCheck),
  \* /\binstead\s+of\s+[\x60'"]([\w\-_.]+)[\x60'"]/i
  CSig(Cat(<<B, Lit("instead"), S1, Lit("of"), S1, Q>>), Ident, Q,
       W(50), W(85), MustInclude),
  \* /\buse\s+[\x60'"]([\w\-_.]+)[\x60'"]\s+instead/i
  CSig(Cat(<<B, Lit("use"), S1, Q>>), Ident, Cat(<<Q, S1, Lit("instead")>>),
       W(50), W(85), MustNotInclude),
  \* /\bno,?\s*(actually|don'?t|stop)/i
  CSig(Cat(<<B, Lit("no"), Opt(Lit(",")), S0, Alt(<<Lit("actually"), Dont, Lit("stop")>>)>>),
       Empty, Empty, W(25), W(65), NoCheck),
  \* /\bthat'?s\s+(wrong|incorrect|not\s+right)/i
  CSig(Cat(<<B, Thats, S1,
             Alt(<<Lit("wrong"), Lit("incorrect"), Cat(<<Lit("not"), S1, Lit("right")>>)>>)>>),
       Empty, Empty, W(40), W(80), NoCheck),
  \* /\bdon'?t\s+use\s+[\x60'"]([\w\-_.]+)[\x60'"]/i
  CSig(Cat(<<B, Dont, S1, Lit("use"), S1, Q>>), Ident, Q, W(45), W(85), MustInclude),
  \* /\bchange\s+[\x60'"]([\w\-_.]+)[\x60'"]\s+to\s+[\x60'"]([\w\-_.]+)[\x60'"]/i
  CSig(Cat(<<B, Lit("change"), S1, Q>>), Ident, Cat(<<Q, S1, Lit("to"), S1, Q, Ident, Q>>),
       W(50), W(85), MustInclude)
>>

(***************************************************************************)
(* JavaScript values                                                       *)
(***************************************************************************)
\* A message taken from the hook input: a string, or a value that is not
\* a string (v is then its String() form, which RegExp.test matches on)
Str(s) == [t |-> "str", v |-> s]

NonStr(s) == [t |-> "num", v |-> s]

\* What loadLastResponse can return: null, a parsed JSON object or
\* primitive (has: the LastResponse fields it holds), or a falsy primitive
RecordFields == {"sessionId", "response", "toolsUsed", "filesModified", "codeWritten", "timestamp"}

Rec(t, has, response, toolsUsed, filesModified, codeWritten, timestamp) ==
  [t |-> t, has |-> has, response |-> response, toolsUsed |-> toolsUsed,
   filesModified |-> filesModified, codeWritten |-> codeWritten, timestamp |-> timestamp]

Null == Rec("null", {}, "", <<>>, <<>>, "", 0)

Falsy == Rec("falsy", {}, "", <<>>, <<>>, "", 0)

LastResponse(response, toolsUsed, filesModified, codeWritten, timestamp) ==
  Rec("obj", RecordFields, response, toolsUsed, filesModified, codeWritten, timestamp)

\* The record without the fields drop
Without(r, drop) == [r EXCEPT !.has = r.has \ drop]

\* A string-valued field in a string concatenation
strField(r, f) == IF f \in r.has THEN r[f] ELSE "undefined"

\* if (lastResponse)
truthy(r) == r.t = "obj"

Undefined == <<>>

(***************************************************************************)
(* matchContextAwareSignals                                                *)
(***************************************************************************)
responseCheck(signal, msg, response) ==
  LET match1 == capture(signal.pre, signal.grp, signal.post, msg)[1]
      lowerResponse == toLowerCase(strField(response, "response") \o " "
                                   \o strField(response, "codeWritten"))
      found == includes(lowerResponse, toLowerCase(match1))
  IN  CASE signal.responseCheck = MustInclude -> found
        [] signal.responseCheck = MustNotInclude -> ~found
        [] OTHER -> TRUE

matchContextAwareSignals(msg, response) ==
  LET lm == toLowerCase(msg)
      matched == SelectSeq([k \in 1..Len(contextAwareSignals) |-> k],
                           LAMBDA k : test(contextAwareSignals[k].userPattern, lm))
  IN  [j \in 1..Len(matched) |->
         LET signal == contextAwareSignals[matched[j]]
         IN  [weight |-> signal.weight,
              contextWeight |-> signal.contextWeight,
              validated |-> responseCheck(signal, msg, response)]]

(***************************************************************************)
(* getIdentifierReferenceBoost                                             *)
(***************************************************************************)
keywords == {"const", "let", "var", "function", "return", "import", "export", "from",
             "class", "this", "new", "true", "false", "null", "undefined"}

\* /\b([a-zA-Z_][a-zA-Z0-9_]{2,})\b/g
identifierPattern ==
  Cat(<<B, Cls(Chars(UpperAlpha) \cup Chars(LowerAlpha) \cup {"_"}),
        Cls(WordChars), Cls(WordChars), Star(Cls(WordChars)), B>>)

\* The identifiers the exec loop adds.  A match lies between two word
\* boundaries and holds word characters only, so it is a whole run of
\* word characters: the matches cannot overlap and the loop finds them all.
codeIdentifiers(code) ==
  {id \in UNION {{SubSeq(code, i + 1, e) : e \in Ends(identifierPattern, code, {i})}
                   : i \in 0..Len(code)} : toLowerCase(id) \notin keywords}

\* /[\x60'"]([\w\-_.]+)[\x60'"]/
quotedPattern == Cat(<<Q, Ident, Q>>)

\* message.match(/[\x60'"]([\w\-_.]+)[\x60'"]/g) with the quote characters
\* removed from each match: the matches are taken left to right and do not
\* overlap (the search resumes where the previous match ended)
RECURSIVE userIdentifiers(_, _)
userIdentifiers(msg, from) ==
  LET i == firstStart(quotedPattern, msg, from)
      e == SetMax(Ends(quotedPattern, msg, {i}))
  IN  IF i < 0 THEN <<>>
      ELSE <<SubSeq(msg, i + 2, e - 1)>> \o userIdentifiers(msg, e)

\* The stop list is not applied
getIdentifierReferenceBoost_KeywordsCount(msg, response) ==
  IF "codeWritten" \notin response.has \/ response.codeWritten = "" THEN 100
  ELSE LET ids == UNION {{SubSeq(response.codeWritten, i + 1, e) :
                            e \in Ends(identifierPattern, response.codeWritten, {i})}
                           : i \in 0..Len(response.codeWritten)}
           mentioned == userIdentifiers(msg, 0)
       IN  IF \E k \in 1..Len(mentioned) : mentioned[k] \in ids THEN 115 ELSE 100

\* The multiplier, in hundredths: 115 or 100
getIdentifierReferenceBoost(msg, response) ==
  IF "codeWritten" \notin response.has \/ response.codeWritten = "" THEN 100
  ELSE LET ids == codeIdentifiers(response.codeWritten)
           mentioned == userIdentifiers(msg, 0)
       IN  IF \E k \in 1..Len(mentioned) : mentioned[k] \in ids THEN 115 ELSE 100

(***************************************************************************)
(* extractBadExample                                                       *)
(***************************************************************************)
\* s.split('\n')[0]
RECURSIVE firstLine(_)
firstLine(s) ==
  IF s = "" \/ SubSeq(s, 1, 1) = "\n" THEN ""
  ELSE SubSeq(s, 1, 1) \o firstLine(SubSeq(s, 2, Len(s)))

\* s.slice(0, n)
slice0(s, n) == SubSeq(s, 1, Min(n, Len(s)))

Returned(v) == [raised |-> FALSE, value |-> v]

Raised == [raised |-> TRUE, value |-> Undefined]

\* /\bthat'?s\s+(wrong|incorrect|not\s+right)/i
disagreement ==
  Cat(<<B, Thats, S1,
        Alt(<<Lit("wrong"), Lit("incorrect"), Cat(<<Lit("not"), S1, Lit("right")>>)>>)>>)

\* The don't-use rule tried before the two instead-of rules
extractBadExample_DontUseFirst(msg, response) ==
  LET useInsteadOf == capture(Cat(<<B, Lit("use"), S1, Q, Ident, Q, S1, Lit("instead"), S1,
                                    Lit("of"), S1, Q>>), Ident, Q, msg)
      insteadOf == capture(Cat(<<B, Lit("instead"), S1, Lit("of"), S1, Q>>), Ident, Q, msg)
      dontUse == capture(Cat(<<B, Dont, S1, Lit("use"), S1, Q>>), Ident, Q, msg)
      changeTo == capture(Cat(<<B, Lit("change"), S1, Q>>), Ident,
                          Cat(<<Q, S1, Lit("to")>>), msg)
  IN  IF dontUse # <<>> THEN Returned(dontUse)
      ELSE IF useInsteadOf # <<>> THEN Returned(useInsteadOf)
      ELSE IF insteadOf # <<>> THEN Returned(insteadOf)
      ELSE IF changeTo # <<>> THEN Returned(changeTo)
      ELSE Returned(Undefined)

\* The fallback taken whatever tools the record lists
extractBadExample_AnyTool(msg, response) ==
  LET useInsteadOf == capture(Cat(<<B, Lit("use"), S1, Q, Ident, Q, S1, Lit("instead"), S1,
                                    Lit("of"), S1, Q>>), Ident, Q, msg)
      insteadOf == capture(Cat(<<B, Lit("instead"), S1, Lit("of"), S1, Q>>), Ident, Q, msg)
      dontUse == capture(Cat(<<B, Dont, S1, Lit("use"), S1, Q>>), Ident, Q, msg)
      changeTo == capture(Cat(<<B, Lit("change"), S1, Q>>), Ident,
                          Cat(<<Q, S1, Lit("to")>>), msg)
      codeSnippet == slice0(response.codeWritten, 100)
  IN  IF useInsteadOf # <<>> THEN Returned(useInsteadOf)
      ELSE IF insteadOf # <<>> THEN Returned(insteadOf)
      ELSE IF dontUse # <<>> THEN Returned(dontUse)
      ELSE IF changeTo # <<>> THEN Returned(changeTo)
      ELSE IF testI(disagreement, msg) /\ codeSnippet # ""
        THEN Returned(<<firstLine(codeSnippet)>>)
      ELSE Returned(Undefined)

extractBadExample(msg, response) ==
  LET \* /\buse\s+[\x60'"]([\w\-_.]+)[\x60'"]\s+instead\s+of\s+[\x60'"]([\w\-_.]+)[\x60'"]/i, match[2]
      useInsteadOf == capture(Cat(<<B, Lit("use"), S1, Q, Ident, Q, S1, Lit("instead"), S1,
                                    Lit("of"), S1, Q>>), Ident, Q, msg)
      \* /\binstead\s+of\s+[\x60'"]([\w\-_.]+)[\x60'"]/i, match[1]
      insteadOf == capture(Cat(<<B, Lit("instead"), S1, Lit("of"), S1, Q>>), Ident, Q, msg)
      \* /\bdon'?t\s+use\s+[\x60'"]([\w\-_.]+)[\x60'"]/i, match[1]
      dontUse == capture(Cat(<<B, Dont, S1, Lit("use"), S1, Q>>), Ident, Q, msg)
      \* /\bchange\s+[\x60'"]([\w\-_.]+)[\x60'"]\s+to/i, match[1]
      changeTo == capture(Cat(<<B, Lit("change"), S1, Q>>), Ident,
                          Cat(<<Q, S1, Lit("to")>>), msg)
      codeSnippet == slice0(response.codeWritten, 100)
  IN  IF useInsteadOf # <<>> THEN Returned(useInsteadOf)
      ELSE IF insteadOf # <<>> THEN Returned(insteadOf)
      ELSE IF dontUse # <<>> THEN Returned(dontUse)
      ELSE IF changeTo # <<>> THEN Returned(changeTo)
      ELSE IF testI(disagreement, msg)
        THEN IF "toolsUsed" \notin response.has THEN Raised
             ELSE IF \E k \in 1..Len(response.toolsUsed) :
                        response.toolsUsed[k] \in {"Edit", "Write"}
               THEN IF "codeWritten" \notin response.has THEN Raised
                    ELSE IF codeSnippet # "" THEN Returned(<<firstLine(codeSnippet)>>)
                    ELSE Returned(Undefined)
               ELSE Returned(Undefined)
        ELSE Returned(Undefined)

(***************************************************************************)
(* getCodeBoost: the multiplier, in hundredths                             *)
(***************************************************************************)
\* /\x60\x60\x60[\s\S]*\x60\x60\x60/
Fence == BackTick \o BackTick \o BackTick

codeBlockPattern == Cat(<<Lit(Fence), Star(NotCls({})), Lit(Fence)>>)

\* /\x60[^\x60]+\x60/
inlineCodePattern == Cat(<<Lit(BackTick), Plus(NotCls({BackTick})), Lit(BackTick)>>)

\* /[{};=>\[\]().]/
codeIndicatorPattern == Cls({"{", "}", ";", "=", ">", "[", "]", "(", ")", "."})

\* message.length > n, false when the message has no length
longerThan(m, n) == m.t = "str" /\ Len(m.v) > n

shorterThan(m, n) == m.t = "str" /\ Len(m.v) < n

\* The inline-span test made before the fenced-block test
getCodeBoost_InlineFirst(m) ==
  IF test(inlineCodePattern, m.v) THEN 115
  ELSE IF test(codeBlockPattern, m.v) THEN 130
  ELSE IF test(codeIndicatorPattern, m.v) /\ longerThan(m, 30) THEN 105
  ELSE 100

\* The fenced-block factor written 0.3 for 1.3
getCodeBoost_BlockFactorBelowOne(m) ==
  IF test(codeBlockPattern, m.v) THEN 30
  ELSE IF test(inlineCodePattern, m.v) THEN 115
  ELSE IF test(codeIndicatorPattern, m.v) /\ longerThan(m, 30) THEN 105
  ELSE 100

getCodeBoost(m) ==
  LET hasCodeBlock == test(codeBlockPattern, m.v)
      hasInlineCode == test(inlineCodePattern, m.v)
      hasCodeIndicators == test(codeIndicatorPattern, m.v) /\ longerThan(m, 30)
  IN  IF hasCodeBlock THEN 130
      ELSE IF hasInlineCode THEN 115
      ELSE IF hasCodeIndicators THEN 105
      ELSE 100

(***************************************************************************)
(* analyzeMessage                                                          *)
(***************************************************************************)
RECURSIVE SumSeq(_)
SumSeq(ws) == IF ws = <<>> THEN 0 ELSE Head(ws) + SumSeq(Tail(ws))

RECURSIVE MaxSeq(_)
MaxSeq(ws) == IF ws = <<>> THEN 0 ELSE Max(Head(ws), MaxSeq(Tail(ws)))

skipDetector(m) ==
  LET lm == toLowerCase(m.v)
  IN  \E k \in 1..Len(skipSignals) : test(skipSignals[k], lm)

\* The plain signals that match, in table order
matchedSignals(m) ==
  LET lm == toLowerCase(m.v)
  IN  SelectSeq(correctionSignals, LAMBDA signal : test(signal.pattern, lm))

\* The bonus without its cap
multiSignalBonus_NoCap(totalWeight, maxWeight) == ((totalWeight - maxWeight) * 3) \div 10

\* totalWeight is not reset at each call: the bonus is computed on the
\* total that includes the call made before
multiSignalBonus_TotalKept(totalWeight, maxWeight) ==
  Min(((locals.totalWeight + totalWeight - maxWeight) * 3) \div 10, W(20))

\* Math.min((totalWeight - maxWeight) * 0.3, 0.2)
multiSignalBonus(totalWeight, maxWeight) == Min(((totalWeight - maxWeight) * 3) \div 10, W(20))

\* contextWeight used even when the validation fails
effectiveWeight_AlwaysContext(match) == match.contextWeight

\* The weight a context match adds to totalWeight and maxWeight
effectiveWeight(match) == IF match.validated THEN match.contextWeight ELSE match.weight

\* A match whose validation fails is charged the difference
boostOf_FailedValidationCharged(match) ==
  IF match.validated THEN match.contextWeight - match.weight
  ELSE match.weight - match.contextWeight

\* What a context match adds to contextBoost
boostOf(match) == IF match.validated THEN match.contextWeight - match.weight ELSE 0

NoLocals ==
  [totalWeight |-> 0, maxWeight |-> 0, contextBoost |-> 0, multiSignalBonus |-> 0,
   base |-> 0, codeBoost |-> 100, path |-> "none"]

EmptyResult(hasContext) ==
  [isCorrection |-> FALSE, confidence |-> 0, categoryHints |-> <<>>,
   skipLearning |-> FALSE, badExample |-> Undefined, hasContext |-> hasContext]

\* The comparison the wrong way round
shortMessage_Inverted(m) == longerThan(m, MIN_MESSAGE_LENGTH)

\* message.length < MIN_MESSAGE_LENGTH
shortMessage(m) == shorterThan(m, MIN_MESSAGE_LENGTH)

\* The early return without the flag
skipped_FlagNotSet(init) == init

\* result.skipLearning = true; return result
skipped(init) == [init EXCEPT !.skipLearning = TRUE]

\* The context boost added before the multiplication
finalConfidence_BoostScaled(base, codeBoost, contextBoost) ==
  Min(((base + Min(contextBoost, W(25))) * codeBoost) \div 100, One)

\* The confidence without the final clamp
finalConfidence_NoClamp(base, codeBoost, contextBoost) ==
  (base * codeBoost) \div 100 + Min(contextBoost, W(25))

\* confidence *= getCodeBoost(message); confidence += Math.min(contextBoost,
\* 0.25); confidence = Math.min(confidence, 1.0)
finalConfidence(base, codeBoost, contextBoost) ==
  Min((base * codeBoost) \div 100 + Min(contextBoost, W(25)), One)

\* The threshold excluded
isCorrectionAt_Strict(confidence) == confidence > MIN_CONFIDENCE

\* confidence >= MIN_CONFIDENCE
isCorrectionAt(confidence) == confidence >= MIN_CONFIDENCE

\* The arithmetic of analyzeMessage on what its matchers returned: plain is
\* matchedSignals, contextMatches is matchContextAwareSignals, bad is
\* extractBadExample ([raised, value]); [raised, result, locals]
scoreFrom(m, useContext, plain, contextMatches, identifierBoost, bad, codeBoost, init) ==
  LET hinted == SelectSeq(plain, LAMBDA signal : signal.categoryHint # NoHint)
      hints == [k \in 1..Len(hinted) |-> hinted[k].categoryHint]
      weights == [k \in 1..Len(plain) |-> plain[k].weight]
                   \o [k \in 1..Len(contextMatches) |-> effectiveWeight(contextMatches[k])]
      totalWeight == SumSeq(weights)
      maxWeight == MaxSeq(weights)
      contextBoost == SumSeq([k \in 1..Len(contextMatches) |-> boostOf(contextMatches[k])])
                        + (IF identifierBoost > 100 THEN W(10) ELSE 0)
      bonus == multiSignalBonus(totalWeight, maxWeight)
      base == maxWeight + bonus
      confidence == finalConfidence(base, codeBoost, contextBoost)
  IN  IF (useContext /\ m.t # "str") \/ bad.raised
        THEN [raised |-> TRUE, result |-> init, locals |-> [NoLocals EXCEPT !.path = "raised"]]
      ELSE [raised |-> FALSE,
            result |-> [init EXCEPT !.confidence = confidence,
                                    !.isCorrection = isCorrectionAt(confidence),
                                    !.categoryHints = hints,
                                    !.badExample = bad.value],
            locals |-> [totalWeight |-> totalWeight, maxWeight |-> maxWeight,
                        contextBoost |-> contextBoost, multiSignalBonus |-> bonus,
                        base |-> base, codeBoost |-> codeBoost, path |-> "scored"]]

\* The context-aware signals are matched whether there is a record or not
scoreMessage_ContextSignalsAlways(m, response, init) ==
  scoreFrom(m, truthy(response), matchedSignals(m),
            matchContextAwareSignals(m.v, response),
            IF truthy(response) THEN getIdentifierReferenceBoost(m.v, response) ELSE 100,
            IF truthy(response) THEN extractBadExample(m.v, response)
            ELSE Returned(Undefined),
            getCodeBoost(m), init)

\* The scoring part of analyzeMessage, reached by a message that is
\* neither short nor disclaimed: the matchers are run (the context-aware
\* ones only if (lastResponse) is truthy) and their results combined
scoreMessage(m, response, init) ==
  scoreFrom(m, truthy(response), matchedSignals(m),
            IF truthy(response) THEN matchContextAwareSignals(m.v, response) ELSE <<>>,
            IF truthy(response) THEN getIdentifierReferenceBoost(m.v, response) ELSE 100,
            IF truthy(response) THEN extractBadExample(m.v, response)
            ELSE Returned(Undefined),
            getCodeBoost(m), init)

\* A skip trigger sets the flag but the return is missing
analyzeMessage_SkipWithoutReturn(m, response) ==
  LET init == EmptyResult(response.t # "null")
      scored == scoreMessage(m, response, init)
  IN  IF shortMessage(m)
        THEN [raised |-> FALSE, result |-> init, locals |-> [NoLocals EXCEPT !.path = "short"]]
      ELSE IF skipDetector(m)
        THEN [scored EXCEPT !.result = skipped(scored.result), !.locals.path = "skip"]
      ELSE scored

\* [raised, result, locals]: raised when the call throws
analyzeMessage(m, response) ==
  LET init == EmptyResult(response.t # "null")
  IN  IF shortMessage(m)
        THEN [raised |-> FALSE, result |-> init, locals |-> [NoLocals EXCEPT !.path = "short"]]
      ELSE IF skipDetector(m)
        THEN [raised |-> FALSE, result |-> skipped(init),
              locals |-> [NoLocals EXCEPT !.path = "skip"]]
      ELSE scoreMessage(m, response, init)

\* analyzeMessage of the context-free hook (hooks/analyze-corrections.js),
\* whose skipSignals, correctionSignals, getCodeBoost and thresholds are
\* those of the context-aware hook: [isCorrection, confidence,
\* categoryHints, skipLearning]
analyzeMessageContextFree(m) ==
  LET initial == [isCorrection |-> FALSE, confidence |-> 0, categoryHints |-> <<>>,
                 skipLearning |-> FALSE]
      matched == matchedSignals(m)
      weights == [k \in 1..Len(matched) |-> matched[k].weight]
      hinted == SelectSeq(matched, LAMBDA signal : signal.categoryHint # NoHint)
      confidence ==
        Min(((MaxSeq(weights) + multiSignalBonus(SumSeq(weights), MaxSeq(weights)))
               * getCodeBoost(m)) \div 100, One)
  IN  IF shortMessage(m) THEN initial
      ELSE IF skipDetector(m) THEN [initial EXCEPT !.skipLearning = TRUE]
      ELSE [initial EXCEPT !.confidence = confidence,
                          !.isCorrection = confidence >= MIN_CONFIDENCE,
                          !.categoryHints = [k \in 1..Len(hinted) |-> hinted[k].categoryHint]]

(***************************************************************************)
(* Files of .claude/correct-habits and the clock                           *)
(***************************************************************************)
\* last-response.json: missing, not parseable, or the JSON value data
RecordFile(data) == [kind |-> "json", data |-> data]

GarbageFile == [kind |-> "garbage", data |-> Null]

\* JSON values that are not a LastResponse: an object or non-zero number
\* with no field of it, a record without a valid timestamp, a record with
\* a timestamp and nothing else
EmptyObject == Without(LastResponse("", <<>>, <<>>, "", 0), RecordFields)

Undated(r) == Without(r, {"timestamp"})

OnlyDated(ts) ==
  Without(LastResponse("", <<>>, <<>>, "", ts),
          {"sessionId", "response", "toolsUsed", "filesModified", "codeWritten"})

\* A record is dropped already at the age of exactly five minutes
loadLastResponse_AtLeast(file, clock) ==
  IF file.kind = "missing" THEN Null
  ELSE IF file.kind = "garbage" THEN Null
  ELSE IF file.data.t = "null" THEN Null
  ELSE IF "timestamp" \in file.data.has /\ clock - file.data.timestamp >= CONTEXT_STALENESS_MS
    THEN Null
  ELSE file.data

\* A record found fresh by the previous detection is taken as fresh again
loadLastResponse_Cached(file, clock) ==
  IF file.kind = "missing" THEN Null
  ELSE IF file.kind = "garbage" THEN Null
  ELSE IF file.data.t = "null" THEN Null
  ELSE IF earlier # <<>> /\ earlier[1].lastResponse = file.data THEN file.data
  ELSE IF "timestamp" \in file.data.has /\ clock - file.data.timestamp > CONTEXT_STALENESS_MS
    THEN Null
  ELSE file.data

\* loadLastResponse: null if the file is missing, cannot be parsed or is
\* stale.  new Date(undefined).getTime() is NaN and every comparison with
\* NaN is false, so a value without a valid timestamp is never stale.
loadLastResponse(file, clock) ==
  IF file.kind = "missing" THEN Null
  ELSE IF file.kind = "garbage" THEN Null
  ELSE IF file.data.t = "null" THEN Null
  ELSE IF "timestamp" \in file.data.has /\ clock - file.data.timestamp > CONTEXT_STALENESS_MS
    THEN Null
  ELSE file.data

Rule(name, category, hitCount, createdAt) ==
  [name |-> name, category |-> category, hitCount |-> hitCount, createdAt |-> createdAt,
   description |-> "", bad_example |-> "", good_example |-> ""]

\* patterns.json: missing, not parseable, JSON without a patterns array
\* (hasPatterns false), or a PatternsData
PatternsData(rules) == [kind |-> "json", hasPatterns |-> TRUE, patterns |-> rules]

NoPatternsFile == [kind |-> "missing", hasPatterns |-> FALSE, patterns |-> <<>>]

GarbagePatterns == [kind |-> "garbage", hasPatterns |-> FALSE, patterns |-> <<>>]

NoPatternsField == [kind |-> "json", hasPatterns |-> FALSE, patterns |-> <<>>]

\* pending.json: missing, not parseable, or an array
PendingData(ps) == [kind |-> "json", pending |-> ps]

NoPendingFile == [kind |-> "missing", pending |-> <<>>]

GarbagePending == [kind |-> "garbage", pending |-> <<>>]

\* a.slice(-n)
lastN(a, n) == SubSeq(a, Max(1, Len(a) - n + 1), Len(a))

\* a.slice(0, n)
firstN(a, n) == SubSeq(a, 1, Min(n, Len(a)))

\* getExistingPatternNames: the names joined are kept as a sequence,
\* <<>> standing for 'none'
getExistingPatternNames(file) ==
  IF file.kind # "json" \/ ~file.hasPatterns THEN <<>>
  ELSE LET last10 == lastN(file.patterns, 10)
       IN  [k \in 1..Len(last10) |-> last10[k].name]

(***************************************************************************)
(* generateInstruction                                                     *)
(***************************************************************************)
\* path.basename
RECURSIVE basename(_)
basename(f) ==
  IF f = "" THEN ""
  ELSE IF SubSeq(f, Len(f), Len(f)) = "/" THEN basename(SubSeq(f, 1, Len(f) - 1))
  ELSE LET cuts == {i \in 1..Len(f) : SubSeq(f, i, i) = "/"}
       IN  IF cuts = {} THEN f ELSE SubSeq(f, SetMax(cuts) + 1, Len(f))

\* MEDIUM is given from 0.5 on
confidenceLabel_MediumFromHalf(confidence) ==
  IF confidence >= W(80) THEN "HIGH"
  ELSE IF confidence >= W(50) THEN "MEDIUM"
  ELSE "LOW"

confidenceLabel(confidence) ==
  IF confidence >= W(80) THEN "HIGH"
  ELSE IF confidence >= W(60) THEN "MEDIUM"
  ELSE "LOW"

\* confidence.toFixed(2), in hundredths
toFixed2(confidence) == (confidence + 500) \div 1000

\* The directive, as the parts the template is filled with; raised when
\* lastResponse.toolsUsed or lastResponse.filesModified is undefined
generateInstruction(detection, existingPatterns, response) ==
  LET withContext == detection.hasContext /\ truthy(response)
      hasBad == detection.badExample # Undefined /\ detection.badExample[1] # ""
      files == firstN(response.filesModified, 3)
  IN  IF withContext /\ ~({"toolsUsed", "filesModified"} \subseteq response.has) THEN Raised
      ELSE Returned(
        [confidenceLabel |-> confidenceLabel(detection.confidence),
         contextAware |-> detection.hasContext,
         avoid |-> IF withContext /\ hasBad THEN detection.badExample ELSE <<>>,
         toolsUsed |-> IF withContext THEN response.toolsUsed ELSE <<>>,
         filesModified |-> IF withContext THEN [k \in 1..Len(files) |-> basename(files[k])]
                           ELSE <<>>,
         existingPatterns |-> existingPatterns,
         categoryHints |-> detection.categoryHints,
         useBad |-> IF hasBad THEN detection.badExample ELSE <<>>,
         confidence |-> toFixed2(detection.confidence)])

(***************************************************************************)
(* main of the message-analysis hook (UserPromptSubmit)                    *)
(***************************************************************************)
\* What /dev/stdin holds: it cannot be read, it is blank, it is not JSON,
\* it is the JSON null, or it is JSON whose message, prompt and content
\* properties are as given (Str("") for a property that is absent)
HookInput(m, p, c) == [kind |-> "json", message |-> m, prompt |-> p, content |-> c]

Unreadable == [kind |-> "unreadable", message |-> Str(""), prompt |-> Str(""), content |-> Str("")]

Blank == [kind |-> "empty", message |-> Str(""), prompt |-> Str(""), content |-> Str("")]

NotJson == [kind |-> "garbage", message |-> Str(""), prompt |-> Str(""), content |-> Str("")]

JsonNull == [kind |-> "null", message |-> Str(""), prompt |-> Str(""), content |-> Str("")]

\* hookInput.message || hookInput.prompt || hookInput.content || ''
hookMessage(input) ==
  IF input.message # Str("") THEN input.message
  ELSE IF input.prompt # Str("") THEN input.prompt
  ELSE input.content

\* main from the call of analyzeMessage on: detection is what the call
\* returned ([raised, result, locals]), existingPatterns what
\* getExistingPatternNames returns if it is called
report(msg, response, detection, existingPatterns) ==
  LET instruction == generateInstruction(detection.result, existingPatterns, response)
      done(status, printed, readPatterns) ==
        [exit |-> status, stdout |-> printed, analyzed |-> TRUE,
         readPatterns |-> readPatterns, message |-> msg, lastResponse |-> response,
         result |-> detection.result, locals |-> detection.locals]
  IN  IF detection.raised THEN done("raised", <<>>, FALSE)
      ELSE IF ~detection.result.isCorrection \/ detection.result.skipLearning
        THEN done("ok", <<>>, FALSE)
      ELSE IF instruction.raised THEN done("raised", <<>>, TRUE)
      ELSE done("ok", <<instruction.value>>, TRUE)

\* main from the extraction of the message on
process(input, msg, response, rulesFile) ==
  LET quiet(status) ==
        [exit |-> status, stdout |-> <<>>, analyzed |-> FALSE, readPatterns |-> FALSE,
         message |-> msg, lastResponse |-> Null, result |-> EmptyResult(FALSE),
         locals |-> NoLocals]
  IN  IF input.kind \in {"unreadable", "empty", "garbage"} THEN quiet("ok")
      ELSE IF input.kind = "null" THEN quiet("raised")
      ELSE IF msg = Str("") THEN quiet("ok")
      ELSE report(msg, response, analyzeMessage(msg, response),
                  getExistingPatternNames(rulesFile))

\* [exit, stdout, analyzed, readPatterns, message, lastResponse, result,
\* locals]: how the process ends, what it printed, and the call of
\* analyzeMessage it made (analyzed false if it made none)
main(input, recordFile, rulesFile, clock) ==
  process(input, hookMessage(input), loadLastResponse(recordFile, clock), rulesFile)

(***************************************************************************)
(* Session-start hook                                                      *)
(***************************************************************************)
STATE_STALENESS_MS == 30 * 60 * 1000

RECENT_MS == 7 * 24 * 60 * 60 * 1000

INJECTION_CAP == 20

MissingRecordFile == [kind |-> "missing", data |-> Null]

\* The detection window of 5 minutes is used for the cleanup
cleanupStaleState_DetectionWindow(file, clock) ==
  IF file.kind = "missing" THEN file
  ELSE IF file.kind = "garbage" THEN MissingRecordFile
  ELSE IF file.data.t = "null" THEN MissingRecordFile
  ELSE IF "timestamp" \in file.data.has /\ clock - file.data.timestamp > CONTEXT_STALENESS_MS
    THEN MissingRecordFile
  ELSE file

\* cleanupStaleState: the content of last-response.json afterwards
cleanupStaleState(file, clock) ==
  IF file.kind = "missing" THEN file
  ELSE IF file.kind = "garbage" THEN MissingRecordFile
  ELSE IF file.data.t = "null" THEN MissingRecordFile
  ELSE IF "timestamp" \in file.data.has /\ clock - file.data.timestamp > STATE_STALENESS_MS
    THEN MissingRecordFile
  ELSE file

\* The recency point left out of the score
score_HitCountOnly(p, clock) == p.hitCount * 2

\* (p.hitCount || 0) * 2 + (new Date(p.createdAt) > Date.now() - 7 days ? 1 : 0)
score(p, clock) == p.hitCount * 2 + (IF p.createdAt > clock - RECENT_MS THEN 1 ELSE 0)

\* A rule is placed before the rules of equal score already placed
RECURSIVE insertByScore_TiesFirst(_, _, _)
insertByScore_TiesFirst(sorted, p, clock) ==
  IF sorted = <<>> THEN <<p>>
  ELSE IF score(Head(sorted), clock) > score(p, clock)
    THEN <<Head(sorted)>> \o insertByScore_TiesFirst(Tail(sorted), p, clock)
  ELSE <<p>> \o sorted

\* Array.prototype.sort with the comparator scoreB - scoreA: descending
\* score, and stable (rules of equal score keep their order)
RECURSIVE insertByScore(_, _, _)
insertByScore(sorted, p, clock) ==
  IF sorted = <<>> THEN <<p>>
  ELSE IF score(Head(sorted), clock) >= score(p, clock)
    THEN <<Head(sorted)>> \o insertByScore(Tail(sorted), p, clock)
  ELSE <<p>> \o sorted

RECURSIVE sortByScore(_, _)
sortByScore(ps, clock) ==
  IF ps = <<>> THEN <<>>
  ELSE insertByScore(sortByScore(SubSeq(ps, 1, Len(ps) - 1), clock), ps[Len(ps)], clock)

\* p.category || 'other'
categoryOf(p) == IF p.category = "" THEN "other" ELSE p.category

\* formatPatternsForContext: the rules in the order the text lists them,
\* category by category, the categories in order of first appearance
RECURSIVE byCategory(_)
byCategory(ps) ==
  IF ps = <<>> THEN <<>>
  ELSE LET cat == categoryOf(Head(ps))
       IN  SelectSeq(ps, LAMBDA p : categoryOf(p) = cat)
             \o byCategory(SelectSeq(ps, LAMBDA p : categoryOf(p) # cat))

\* main: [exit, stdout, recordFile, sorted]; sorted is patternsData.patterns
\* after the in-place sort
sessionStart(rulesFile, pendingsFile, recordFile, clock) ==
  LET cleaned == cleanupStaleState(recordFile, clock)
      sortedRules == sortByScore(rulesFile.patterns, clock)
      topPatterns == firstN(sortedRules, INJECTION_CAP)
      failed == [exit |-> "raised", stdout |-> <<>>, recordFile |-> cleaned,
                 sorted |-> rulesFile.patterns]
  IN  IF rulesFile.kind = "garbage" THEN failed
      ELSE IF pendingsFile.kind = "garbage" THEN failed
      ELSE IF rulesFile.kind = "json" /\ ~rulesFile.hasPatterns THEN failed
      ELSE [exit |-> "ok",
            stdout |-> <<[patterns |-> byCategory(topPatterns),
                          pending |-> pendingsFile.pending]>>,
            recordFile |-> cleaned,
            sorted |-> sortedRules]

(***************************************************************************)
(* Stop hook                                                               *)
(***************************************************************************)
\* A transcript is the sequence of its non-blank lines; a line is
\* [json, role, isArray, content]: json is FALSE for a line JSON.parse
\* rejects, role is entry.message.role ("" when the entry has none),
\* content the blocks of entry.message.content (isArray FALSE when the
\* content is a string).  A block is [type, text, name, file_path, path,
\* new_string, content], "" standing for an absent property.

\* The search runs from the first entry on
findLastAssistantMessage_First(transcript) ==
  LET parsed == SelectSeq(transcript, LAMBDA line : line.json)
      found == {i \in 1..Len(parsed) : parsed[i].role = "assistant"}
  IN  IF found = {} THEN <<>> ELSE <<parsed[SetMin(found)]>>

\* findLastAssistantMessage over what readTranscript returns (the lines
\* that parse): the last entry of role assistant, <<>> for null
findLastAssistantMessage(transcript) ==
  LET parsed == SelectSeq(transcript, LAMBDA line : line.json)
      found == {i \in 1..Len(parsed) : parsed[i].role = "assistant"}
  IN  IF found = {} THEN <<>> ELSE <<parsed[SetMax(found)]>>

\* buildLastResponse with extractTextContent and extractToolUse; the
\* timestamp is Date.now() at the call
buildLastResponse(assistantMessage, clock) ==
  LET contentBlocks == IF assistantMessage.isArray THEN assistantMessage.content ELSE <<>>
      RECURSIVE joinWith(_, _)
      joinWith(parts, sep) ==
        IF parts = <<>> THEN ""
        ELSE IF Len(parts) = 1 THEN parts[1]
        ELSE parts[1] \o sep \o joinWith(Tail(parts), sep)
      RECURSIVE trim(_)
      trim(t) ==
        IF t = "" THEN ""
        ELSE IF SubSeq(t, 1, 1) \in SpaceChars THEN trim(SubSeq(t, 2, Len(t)))
        ELSE IF SubSeq(t, Len(t), Len(t)) \in SpaceChars THEN trim(SubSeq(t, 1, Len(t) - 1))
        ELSE t
      RECURSIVE unique(_)
      unique(xs) ==
        IF xs = <<>> THEN <<>>
        ELSE LET init == unique(SubSeq(xs, 1, Len(xs) - 1))
                 last == xs[Len(xs)]
             IN  IF \E k \in 1..Len(init) : init[k] = last THEN init ELSE Append(init, last)
      texts == SelectSeq(contentBlocks, LAMBDA block : block.type = "text")
      textContent == trim(joinWith([k \in 1..Len(texts) |-> texts[k].text], "\n"))
      uses == SelectSeq(contentBlocks, LAMBDA block : block.type = "tool_use")
      toolUseInfo ==
        [k \in 1..Len(uses) |->
           [tool |-> IF uses[k].name = "" THEN "unknown" ELSE uses[k].name,
            file |-> IF uses[k].file_path # "" THEN uses[k].file_path ELSE uses[k].path,
            code |-> IF uses[k].name = "Edit" THEN uses[k].new_string
                     ELSE IF uses[k].name = "Write" THEN uses[k].content
                     ELSE ""]]
      withFile == SelectSeq(toolUseInfo, LAMBDA t : t.file # "")
      withCode == SelectSeq(toolUseInfo, LAMBDA t : t.code # "")
  IN  LastResponse(textContent,
                   unique([k \in 1..Len(toolUseInfo) |-> toolUseInfo[k].tool]),
                   unique([k \in 1..Len(withFile) |-> withFile[k].file]),
                   joinWith([k \in 1..Len(withCode) |-> withCode[k].code], "\n---\n"),
                   clock)

\* main of the Stop hook: [exit, recordFile].  input is what /dev/stdin
\* holds, with input.transcript the file its transcript_path names
\* ([kind, lines]; kind "nopath" for no transcript_path).  A JSON null on
\* stdin and a transcript that exists but cannot be read raise.
stop(input, recordFile, clock) ==
  LET lastAssistant == findLastAssistantMessage(input.transcript.lines)
      quiet(status) == [exit |-> status, recordFile |-> recordFile]
  IN  IF input.kind \in {"unreadable", "empty", "garbage"} THEN quiet("ok")
      ELSE IF input.kind = "null" THEN quiet("raised")
      ELSE IF input.transcript.kind \in {"nopath", "missing"} THEN quiet("ok")
      ELSE IF input.transcript.kind = "unreadable" THEN quiet("raised")
      ELSE IF lastAssistant = <<>> THEN quiet("ok")
      ELSE [exit |-> "ok",
            recordFile |-> RecordFile(buildLastResponse(lastAssistant[1], clock))]

(***************************************************************************)
(* Inputs                                                                  *)
(***************************************************************************)
MaxPhrases == 2

Code(s) == BackTick \o s \o BackTick

\* The fragments messages are made of: each of the five scenario messages
\* of the weight table's tiers, the skip triggers, quoted terms and code
Phrases == <<
  "we always use tabs",
  "just this once",
  "fix this",
  "use " \o Code("const") \o " instead of " \o Code("var"),
  "that's wrong",
  "exception",
  "rename it",
  "don't use 'fooBar'",
  Fence \o "\nx = 1;\n" \o Fence,
  "no, actually",
  "in the parser",
  "should be foo(bar)",
  "in " \o Code("fooBar")
>>

\* ps.join(' ')
RECURSIVE join(_)
join(ps) ==
  IF ps = <<>> THEN ""
  ELSE IF Len(ps) = 1 THEN ps[1]
  ELSE ps[1] \o " " \o join(Tail(ps))

PhraseSeqs == UNION {[1..n -> 1..Len(Phrases)] : n \in 0..MaxPhrases}

Messages == {join([k \in DOMAIN ps |-> Phrases[ps[k]]]) : ps \in PhraseSeqs}

\* Well-formed Prior-Turn Records, as the Stop hook writes them
EditRecord(ts) ==
  LastResponse("I used var for the counter", <<"Edit">>, <<"src/app/counter.js">>,
               "var fooBar = 1;\nreturn fooBar;", ts)

PlainRecord(ts) == LastResponse("Done.", <<>>, <<>>, "", ts)

WriteRecord(ts) ==
  LastResponse("Switched to const", <<"Read", "Write">>,
               <<"lib/a.js", "lib/b.js", "lib/c.js", "lib/d.js">>, "const total = 0;", ts)

Records == {Null, EditRecord(0), PlainRecord(0), WriteRecord(0)}

\* Fenced code blocks a message can be extended with
Blocks == {Fence \o "\nx = 1;\n" \o Fence,
           Fence \o "\nthrow new Exception()\n" \o Fence}

(***************************************************************************)
(* The scorer as a function: one call of analyzeMessage on any message     *)
(* and any record                                                          *)
(***************************************************************************)
Idle ==
  /\ now = 0
  /\ lastResponseFile = MissingRecordFile
  /\ patternsFile = NoPatternsFile
  /\ pendingFile = NoPendingFile
  /\ sortedPatterns = <<>>
  /\ stdin = Blank
  /\ stdout = <<>>
  /\ exit = "none"

InitAnalyze ==
  /\ message \in {Str(s) : s \in Messages}
  /\ lastResponse \in Records
  /\ result = EmptyResult(FALSE)
  /\ locals = NoLocals
  /\ earlier = <<>>
  /\ pc = "call"
  /\ Idle

Analyze ==
  /\ pc = "call"
  /\ \E r \in {analyzeMessage(message, lastResponse)} :
         /\ result' = r.result
         /\ locals' = r.locals
         /\ pc' = IF r.raised THEN "threw" ELSE "return"
  /\ UNCHANGED <<message, lastResponse, earlier, now, lastResponseFile, patternsFile,
                 pendingFile, sortedPatterns, stdin, stdout, exit>>

NextAnalyze == Analyze

SpecAnalyze == InitAnalyze /\ [][NextAnalyze]_vars

(***************************************************************************)
(* The scorer on the messages and records the Example Extractor tells      *)
(* apart                                                                   *)
(***************************************************************************)
ExtractPhrases == <<
  "use " \o Code("const") \o " instead of " \o Code("var"),
  "instead of 'tabs'",
  "don't use 'fooBar'",
  "change 'foo' to 'bar'",
  "that's wrong",
  "thats incorrect",
  "we always use spaces"
>>

\* Record files the Stop hook does not write but loadLastResponse accepts
\* (it checks the timestamp only): code with no Edit or Write among the
\* tools; and a record the Stop hook writes for an Edit with an empty
\* new_string
ExtractRecords ==
  {Null, EditRecord(0), PlainRecord(0), WriteRecord(0),
   LastResponse("Here is the file", <<"Read", "Bash">>, <<>>, "let x = 2;", 0),
   LastResponse("Edited.", <<"Edit">>, <<"src/a.js">>, "", 0)}

InitExtract ==
  /\ message \in {Str(join([k \in DOMAIN ps |-> ExtractPhrases[ps[k]]])) :
                    ps \in UNION {[1..n -> 1..Len(ExtractPhrases)] : n \in 0..MaxPhrases}}
  /\ lastResponse \in ExtractRecords
  /\ result = EmptyResult(FALSE)
  /\ locals = NoLocals
  /\ earlier = <<>>
  /\ pc = "call"
  /\ Idle

SpecExtract == InitExtract /\ [][NextAnalyze]_vars

(***************************************************************************)
(* Two calls of analyzeMessage in one process, the second on any pair:     *)
(* the result and the locals of the first call are still in memory when    *)
(* the second is made                                                      *)
(***************************************************************************)
RecallMessages ==
  {"We always use early returns, never nested ifs",
   "that's wrong, rename it and fix the import",
   "use " \o Code("const") \o " instead of " \o Code("var"),
   "just this once, skip the validation",
   "please don't use 'fooBar' in the parser",
   "fix this"}

InitRecall ==
  /\ message \in {Str(s) : s \in RecallMessages}
  /\ lastResponse \in Records
  /\ result = EmptyResult(FALSE)
  /\ locals = NoLocals
  /\ earlier = <<>>
  /\ pc = "call"
  /\ Idle

Recall ==
  /\ pc = "return"
  /\ earlier = <<>>
  /\ earlier' = <<[message |-> message, lastResponse |-> lastResponse, result |-> result]>>
  /\ message' \in {Str(s) : s \in RecallMessages}
  /\ lastResponse' \in Records
  /\ pc' = "call"
  /\ UNCHANGED <<result, locals, now, lastResponseFile, patternsFile, pendingFile,
                 sortedPatterns, stdin, stdout, exit>>

NextRecall == Analyze \/ Recall

SpecRecall == InitRecall /\ [][NextRecall]_vars

(***************************************************************************)
(* One activation of the message-analysis hook, on any input, any content  *)
(* of the two files it reads and any age of the stored record              *)
(***************************************************************************)
MaxMinutes == 6

Minute == 60 * 1000

\* Date.now() at the activation; the stored records were captured at 0
Clock == {m * Minute : m \in 0..MaxMinutes} \cup {CONTEXT_STALENESS_MS + 1}

RecordFiles ==
  {MissingRecordFile, GarbageFile, RecordFile(Null), RecordFile(Falsy),
   RecordFile(EmptyObject), RecordFile(Undated(EditRecord(0))), RecordFile(OnlyDated(0)),
   RecordFile(EditRecord(0)), RecordFile(WriteRecord(0))}

SomeRules ==
  <<Rule("prefer-early-returns", "style", 2, 0), Rule("no-var", "", 0, 0),
    Rule("use-named-exports", "imports", 2, 0)>>

MaxRules == 22

\* A collection larger than the cap: hit counts 0 to 3, every third rule
\* created eight days before the records, three categories
ManyRules ==
  [k \in 1..MaxRules |->
     Rule("rule-" \o ToString(k), <<"", "style", "imports">>[(k % 3) + 1], k % 4,
          IF k % 3 = 0 THEN 0 - 8 * 24 * 60 * 60 * 1000 ELSE 0)]

PatternsFiles ==
  {NoPatternsFile, GarbagePatterns, NoPatternsField, PatternsData(SomeRules),
   PatternsData(ManyRules)}

HookMessages ==
  {"We always use early returns, never nested ifs",
   "fix this",
   "use " \o Code("const") \o " instead of " \o Code("var"),
   "that's wrong, don't do it like that",
   "just this once, skip the validation",
   "please don't use 'fooBar' in the parser"}

HookInputs ==
  {Unreadable, Blank, NotJson, JsonNull,
   HookInput(Str(""), Str(""), Str("")),
   HookInput(NonStr("12345"), Str(""), Str("")),
   HookInput(Str(""), Str("no, actually we never use tabs"), Str("")),
   HookInput(Str(""), Str(""), Str("that's not right, fix the import"))}
    \cup {HookInput(Str(s), Str(""), Str("")) : s \in HookMessages}

Fresh ==
  /\ message = Str("")
  /\ lastResponse = Null
  /\ result = EmptyResult(FALSE)
  /\ locals = NoLocals
  /\ earlier = <<>>
  /\ sortedPatterns = <<>>
  /\ stdin = Blank
  /\ stdout = <<>>
  /\ exit = "none"
  /\ pc = "idle"

InitPrompt ==
  /\ now \in Clock
  /\ lastResponseFile \in RecordFiles
  /\ patternsFile \in {NoPatternsFile, GarbagePatterns, PatternsData(SomeRules)}
  /\ pendingFile = NoPendingFile
  /\ Fresh

UserPromptSubmit ==
  /\ pc = "idle"
  /\ \E input \in HookInputs :
       \E r \in {main(input, lastResponseFile, patternsFile, now)} :
           /\ stdin' = input
           /\ message' = r.message
           /\ lastResponse' = r.lastResponse
           /\ result' = r.result
           /\ locals' = [r.locals EXCEPT !.path = IF r.analyzed THEN @ ELSE "none"]
           /\ stdout' = r.stdout
           /\ exit' = r.exit
           /\ pc' = IF r.readPatterns THEN "emitting" ELSE IF r.analyzed THEN "analyzed"
                     ELSE "exited"
  /\ UNCHANGED <<earlier, now, lastResponseFile, patternsFile, pendingFile, sortedPatterns>>

NextPrompt == UserPromptSubmit

SpecPrompt == InitPrompt /\ [][NextPrompt]_vars

(***************************************************************************)
(* One activation of the session-start hook, on any content of the three   *)
(* files it reads                                                          *)
(***************************************************************************)
PendingFiles ==
  {NoPendingFile, GarbagePending, PendingData(<<>>),
   PendingData(<<[name |-> "no-var", description |-> "", bad_example |-> "var"]>>)}

InitSession ==
  /\ now \in Clock \cup {STATE_STALENESS_MS, STATE_STALENESS_MS + 1}
  /\ lastResponseFile \in RecordFiles
  /\ patternsFile \in PatternsFiles
  /\ pendingFile \in PendingFiles
  /\ Fresh

SessionStart ==
  /\ pc = "idle"
  /\ \E r \in {sessionStart(patternsFile, pendingFile, lastResponseFile, now)} :
         /\ lastResponseFile' = r.recordFile
         /\ sortedPatterns' = r.sorted
         /\ stdout' = r.stdout
         /\ exit' = r.exit
         /\ pc' = "exited"
  /\ UNCHANGED <<message, lastResponse, result, locals, earlier, now, patternsFile,
                 pendingFile, stdin>>

NextSession == SessionStart

SpecSession == InitSession /\ [][NextSession]_vars

(***************************************************************************)
(* A project over time: turn ends (Stop hook), prompts (message-analysis   *)
(* hook) and session starts in any order, each in a process of its own,    *)
(* while the clock advances; only the files outlive a process              *)
(***************************************************************************)
\* Transcript files: no transcript_path, no such file, an unreadable file,
\* an empty file, no assistant entry, and three with assistant entries
Transcripts ==
  LET block(type, text, name, file_path, path, new_string, content) ==
        [type |-> type, text |-> text, name |-> name, file_path |-> file_path,
         path |-> path, new_string |-> new_string, content |-> content]
      text(t) == block("text", t, "", "", "", "", "")
      entry(role, blocks) == [json |-> TRUE, role |-> role, isArray |-> TRUE, content |-> blocks]
      garbage == [json |-> FALSE, role |-> "", isArray |-> FALSE, content |-> <<>>]
      user == entry("user", <<text("fix the counter")>>)
      edit == entry("assistant",
                    <<text("I used var for the counter"),
                      block("tool_use", "", "Edit", "src/app/counter.js", "", 
                            "var fooBar = 1;\nreturn fooBar;", "")>>)
      plain == entry("assistant", <<block("thinking", "hm", "", "", "", "", ""), text(" Done.\n")>>)
      string == [json |-> TRUE, role |-> "assistant", isArray |-> FALSE, content |-> <<>>]
      file(lines) == [kind |-> "lines", lines |-> lines]
  IN  {[kind |-> k, lines |-> <<>>] : k \in {"nopath", "missing", "unreadable"}}
        \cup {file(<<>>),
              file(<<user, garbage, entry("", <<>>)>>),
              file(<<user, edit>>),
              file(<<user, edit, garbage, user, plain, user>>),
              file(<<string>>)}

InitTurns ==
  /\ now = 0
  /\ lastResponseFile \in {MissingRecordFile, GarbageFile}
  /\ patternsFile = PatternsData(SomeRules)
  /\ pendingFile = NoPendingFile
  /\ Fresh

Stop ==
  /\ pc = "idle"
  /\ \E input \in {Blank, NotJson, JsonNull}
                     \cup {[kind |-> "json", transcript |-> t] : t \in Transcripts} :
       \E r \in {stop(input, lastResponseFile, now)} :
           /\ stdin' = input
           /\ lastResponseFile' = r.recordFile
           /\ exit' = r.exit
           /\ pc' = "stopped"
  /\ UNCHANGED <<message, lastResponse, result, locals, earlier, now, patternsFile,
                 pendingFile, sortedPatterns, stdout>>

\* UserPromptSubmit on a blank stdin and on one correction
Detect ==
  /\ pc = "idle"
  /\ \E input \in {Blank, HookInput(Str(""), Str("use " \o Code("const") \o " instead of "
                                                   \o Code("var")), Str(""))} :
       \E r \in {main(input, lastResponseFile, patternsFile, now)} :
           /\ stdin' = input
           /\ message' = r.message
           /\ lastResponse' = r.lastResponse
           /\ result' = r.result
           /\ locals' = [r.locals EXCEPT !.path = IF r.analyzed THEN @ ELSE "none"]
           /\ stdout' = r.stdout
           /\ exit' = r.exit
           /\ pc' = IF r.readPatterns THEN "emitting" ELSE IF r.analyzed THEN "analyzed"
                     ELSE "exited"
  /\ UNCHANGED <<earlier, now, lastResponseFile, patternsFile, pendingFile, sortedPatterns>>

\* The process ends: its memory is gone, the files stay.  earlier keeps
\* the call of analyzeMessage the process made, if it made one.
Exit ==
  /\ pc # "idle"
  /\ earlier' = IF pc \in {"analyzed", "emitting"}
                  THEN <<[message |-> message, lastResponse |-> lastResponse,
                          result |-> result]>>
                  ELSE earlier
  /\ message' = Str("")
  /\ lastResponse' = Null
  /\ result' = EmptyResult(FALSE)
  /\ locals' = NoLocals
  /\ sortedPatterns' = <<>>
  /\ stdin' = Blank
  /\ stdout' = <<>>
  /\ exit' = "none"
  /\ pc' = "idle"
  /\ UNCHANGED <<now, lastResponseFile, patternsFile, pendingFile>>

\* Time passes between two activations
Tick ==
  /\ pc = "idle"
  /\ now' \in Clock \cup {STATE_STALENESS_MS, STATE_STALENESS_MS + 1}
  /\ now' > now
  /\ UNCHANGED <<message, lastResponse, result, locals, earlier, pc, lastResponseFile,
                 patternsFile, pendingFile, sortedPatterns, stdin, stdout, exit>>

NextTurns == Stop \/ Detect \/ SessionStart \/ Exit \/ Tick

SpecTurns == InitTurns /\ [][NextTurns]_vars

(***************************************************************************)
(* Properties of the scorer (SpecAnalyze)                                  *)
(***************************************************************************)
\* C1, as stated: every message that matches a skip trigger, whatever its
\* length, gets skipLearning = true.
C1_SkipAnyLength ==
  pc = "return" /\ skipDetector(message) => result.skipLearning

\* C1, amended: a message of at least 15 characters that matches a skip
\* trigger gets skipLearning = true whatever else it matches and whether or
\* not there is a record; a message shorter than 15 characters gets
\* skipLearning = false even if it matches a skip trigger.
C1_SkipDominance ==
  pc = "return" =>
    IF Len(message.v) >= 15
      THEN skipDetector(message) => result.skipLearning
      ELSE ~result.skipLearning

C1_Witness ==
  /\ pc = "return"
  /\ Len(message.v) >= 15
  /\ skipDetector(message)
  /\ matchedSignals(message) # <<>>
  /\ lastResponse # Null
  /\ result.skipLearning

\* C2: a message shorter than 15 characters is never a correction and has
\* confidence 0, whatever signals it matches and whether or not there is a
\* record.
C2_ShortMessage ==
  pc = "return" /\ Len(message.v) < 15 =>
    ~result.isCorrection /\ result.confidence = 0

C2_Witness ==
  /\ pc = "return"
  /\ Len(message.v) < 15
  /\ \E k \in 1..Len(matchedSignals(message)) : matchedSignals(message)[k].weight >= W(40)
  /\ lastResponse.t = "obj"
  /\ result.confidence = 0

\* C3: a message of at least 15 characters that matches a skip trigger
\* returns exactly isCorrection = false, skipLearning = true, confidence = 0,
\* no category hints and no badExample, whatever else it matches.
C3_SkipShortCircuit ==
  pc = "return" /\ Len(message.v) >= 15 /\ skipDetector(message) =>
    result = [isCorrection |-> FALSE, confidence |-> 0, categoryHints |-> <<>>,
              skipLearning |-> TRUE, badExample |-> <<>>,
              hasContext |-> (lastResponse # Null)]

C3_Witness ==
  /\ pc = "return"
  /\ Len(message.v) >= 15
  /\ skipDetector(message)
  /\ \E k \in 1..Len(matchedSignals(message)) : matchedSignals(message)[k].weight = W(95)
  /\ lastResponse.t = "obj"
  /\ result.skipLearning /\ result.confidence = 0

\* C8: the confidence of every DetectionResult lies within [0, 1].
C8_ConfidenceRange == result.confidence >= 0 /\ result.confidence <= W(100)

C8_Witness ==
  /\ pc = "return"
  /\ locals.path = "scored"
  /\ locals.contextBoost > 0
  /\ (locals.base * locals.codeBoost) \div 100 + Min(locals.contextBoost, W(25)) > W(100)
  /\ result.confidence = W(100)

\* C9: isCorrection is true exactly when the confidence is at least 0.4;
\* a scored message with no record, multiplier 1.0 and a single matching
\* signal is a correction exactly when that signal weighs at least 0.4.
C9_Threshold ==
  pc = "return" =>
    /\ result.isCorrection <=> result.confidence >= W(40)
    /\ (/\ locals.path = "scored"
        /\ lastResponse = Null
        /\ locals.codeBoost = 100
        /\ Len(matchedSignals(message)) = 1)
         => (result.isCorrection <=> matchedSignals(message)[1].weight >= W(40))

C9_Witness ==
  /\ pc = "return"
  /\ locals.path = "scored"
  /\ lastResponse = Null
  /\ locals.codeBoost = 100
  /\ Len(matchedSignals(message)) = 1
  /\ matchedSignals(message)[1].weight = W(40)
  /\ result.confidence = W(40)
  /\ result.isCorrection

\* C10: the base confidence is maxWeight + min((totalWeight - maxWeight)
\* * 0.3, 0.2), where maxWeight is the strongest matched weight and
\* totalWeight the sum of the matched weights; it never exceeds the
\* strongest matched weight by more than 0.2.
C10_BaseConfidence ==
  locals.path = "scored" =>
    LET plain == matchedSignals(message)
        rest == ((locals.totalWeight - locals.maxWeight) * 3) \div 10
    IN  /\ locals.base = locals.maxWeight + (IF rest < W(20) THEN rest ELSE W(20))
        /\ locals.base <= locals.maxWeight + W(20)
        /\ \A k \in 1..Len(plain) : plain[k].weight <= locals.maxWeight
        /\ lastResponse = Null =>
             /\ locals.totalWeight = SumSeq([k \in 1..Len(plain) |-> plain[k].weight])
             /\ plain # <<>> => \E k \in 1..Len(plain) : plain[k].weight = locals.maxWeight
             /\ locals.codeBoost = 100 => result.confidence = Min(locals.base, W(100))

C10_Witness ==
  /\ locals.path = "scored"
  /\ Len(matchedSignals(message)) >= 3
  /\ ((locals.totalWeight - locals.maxWeight) * 3) \div 10 > W(20)
  /\ locals.base = locals.maxWeight + W(20)

\* C11: the code-content multiplier of a scored message is 1.3 if the
\* message holds two fences (three \x60 each) one after the other, else 1.15
\* if it holds a \x60, one or more other characters and a \x60, else 1.05 if it
\* holds code punctuation and is longer than 30 characters, else 1.0.
C11_CodeMultiplier ==
  locals.path = "scored" =>
    LET s == message.v
        fenceAt(i) == i + 2 <= Len(s) /\ SubSeq(s, i, i + 2) = Fence
        tickAt(i) == SubSeq(s, i, i) = BackTick
        ticks == {i \in 1..Len(s) : tickAt(i)}
        hasBlock == \E i, j \in ticks : j >= i + 3 /\ fenceAt(i) /\ fenceAt(j)
        hasSpan == \E i, j \in ticks : j >= i + 2 /\ \A k \in (i + 1)..(j - 1) : ~tickAt(k)
        hasPunctuation == \E i \in 1..Len(s) :
                            SubSeq(s, i, i) \in {"{", "}", ";", "=", ">", "[", "]", "(", ")", "."}
    IN  locals.codeBoost =
          IF hasBlock THEN 130
          ELSE IF hasSpan THEN 115
          ELSE IF hasPunctuation /\ Len(s) > 30 THEN 105
          ELSE 100

C11_Witness ==
  /\ pc = "return"
  /\ locals.path = "scored"
  /\ includes(message.v, Code("const"))
  /\ includes(message.v, Fence)
  /\ locals.codeBoost = 130

\* C15: the confidence is the base times the code multiplier, plus
\* contextBoost or 0.25 if contextBoost is larger, clamped to 1: the
\* context adds at most 0.25 and what it adds is not multiplied.
C15_ContextBoostCap ==
  locals.path = "scored" =>
    LET multiplied == (locals.base * locals.codeBoost) \div 100
        added == IF locals.contextBoost <= W(25) THEN locals.contextBoost ELSE W(25)
    IN  /\ (locals.base * locals.codeBoost) % 100 = 0
        /\ result.confidence = IF multiplied + added <= W(100) THEN multiplied + added
                                ELSE W(100)
        /\ result.confidence <= multiplied + W(25)

C15_Witness ==
  /\ locals.path = "scored"
  /\ locals.contextBoost > W(25)
  /\ result.confidence = (locals.base * locals.codeBoost) \div 100 + W(25)
  /\ result.confidence < W(100)

\* C17, as stated: the message "use \x60const\x60 instead of \x60var\x60" has
\* badExample "var" (with or without a record), and whenever one of the
\* extractor's four message rules matches a scored message, badExample is
\* what the rule gives, with or without a record.
C17_MessageRulesWithoutRecord ==
  locals.path = "scored" =>
    LET fromMessage == extractBadExample(message.v, PlainRecord(0)).value
    IN  /\ message.v = "use " \o Code("const") \o " instead of " \o Code("var")
             => result.badExample = <<"var">>
        /\ fromMessage # Undefined => result.badExample = fromMessage

\* C29: called with no record, analyzeMessage of the context-aware hook
\* returns the isCorrection, confidence, categoryHints and skipLearning
\* that analyzeMessage of the context-free hook returns for the message,
\* with hasContext false and no badExample.
C29_NoRecordIsContextFree ==
  pc = "return" /\ lastResponse = Null =>
    LET free == analyzeMessageContextFree(message)
    IN  /\ result.isCorrection = free.isCorrection
        /\ result.confidence = free.confidence
        /\ result.categoryHints = free.categoryHints
        /\ result.skipLearning = free.skipLearning
        /\ ~result.hasContext
        /\ result.badExample = Undefined

C29_Witness ==
  /\ pc = "return"
  /\ lastResponse = Null
  /\ result.isCorrection
  /\ result.confidence < One
  /\ result.categoryHints # <<>>
  /\ includes(message.v, "don't use 'fooBar'")
  /\ result.confidence = analyzeMessageContextFree(message).confidence

\* C30: the confidence analyzeMessage computes for a message with a
\* record is at least the confidence it computes for the same message
\* with no record, whether the context-aware signals the message matches
\* are validated by the record or not.
C30_ContextNeverLowers ==
  pc = "return" /\ truthy(lastResponse) =>
    result.confidence >= analyzeMessage(message, Null).result.confidence

C30_Witness ==
  /\ pc = "return"
  /\ truthy(lastResponse)
  /\ locals.contextBoost = 0
  /\ \E k \in 1..Len(contextAwareSignals) :
       capture(contextAwareSignals[k].pre, contextAwareSignals[k].grp,
               contextAwareSignals[k].post, message.v) # <<>>
  /\ result.confidence < One
  /\ result.confidence > analyzeMessage(message, Null).result.confidence

(***************************************************************************)
(* Properties of the extractor and of the context (SpecExtract)            *)
(***************************************************************************)
\* C18: with a record, badExample of a scored message is what the first
\* matching rule gives, in the order "use A instead of B" (B), "instead
\* of B" (B), "don't use B" (B), "change B to" (B), whatever later rules
\* match.
C18_FirstRuleWins ==
  locals.path = "scored" /\ lastResponse # Null =>
    LET rules == <<
          capture(Cat(<<B, Lit("use"), S1, Q, Ident, Q, S1, Lit("instead"), S1,
                        Lit("of"), S1, Q>>), Ident, Q, message.v),
          capture(Cat(<<B, Lit("instead"), S1, Lit("of"), S1, Q>>), Ident, Q, message.v),
          capture(Cat(<<B, Dont, S1, Lit("use"), S1, Q>>), Ident, Q, message.v),
          capture(Cat(<<B, Lit("change"), S1, Q>>), Ident, Cat(<<Q, S1, Lit("to")>>),
                  message.v)>>
    IN  \A k \in 1..4 :
          (rules[k] # <<>> /\ \A j \in 1..(k - 1) : rules[j] = <<>>)
            => result.badExample = rules[k]

C18_Witness ==
  /\ locals.path = "scored"
  /\ lastResponse # Null
  /\ includes(message.v, "don't use 'fooBar'")
  /\ includes(message.v, "change 'foo' to 'bar'")
  /\ result.badExample = <<"fooBar">>

\* C19: with a record and none of the message rules matching (a match of
\* "use A instead of B" is a match of "instead of B"), a
\* scored message has for badExample the first line of the record's code
\* (of its first 100 characters) if the message says that's wrong,
\* incorrect or not right, the record's tools include Edit or Write and
\* the code is not empty; in every other case badExample is absent.
C19_Fallback ==
  locals.path = "scored" /\ lastResponse # Null
    /\ capture(Cat(<<B, Lit("instead"), S1, Lit("of"), S1, Q>>), Ident, Q, message.v) = <<>>
    /\ capture(Cat(<<B, Dont, S1, Lit("use"), S1, Q>>), Ident, Q, message.v) = <<>>
    /\ capture(Cat(<<B, Lit("change"), S1, Q>>), Ident, Cat(<<Q, S1, Lit("to")>>),
               message.v) = <<>> =>
      LET s == toLowerCase(message.v)
          disagrees == \E w \in {"that's wrong", "thats wrong", "that's incorrect",
                                  "thats incorrect", "that's not right", "thats not right"} :
                         includes(s, w)
          modified == \E k \in 1..Len(lastResponse.toolsUsed) :
                        lastResponse.toolsUsed[k] \in {"Edit", "Write"}
          code == lastResponse.codeWritten
          head == SubSeq(code, 1, IF Len(code) < 100 THEN Len(code) ELSE 100)
          breaks == {i \in 1..Len(head) : SubSeq(head, i, i) = "\n"}
          line == IF breaks = {} THEN head
                  ELSE SubSeq(head, 1, (CHOOSE i \in breaks : \A j \in breaks : i <= j) - 1)
      IN  result.badExample = IF disagrees /\ modified /\ code # "" THEN <<line>> ELSE <<>>

C19_Witness ==
  /\ locals.path = "scored"
  /\ lastResponse = EditRecord(0)
  /\ includes(message.v, "thats incorrect")
  /\ result.badExample = <<"var fooBar = 1;">>

C14_ContextContribution ==
  locals.path = "scored" =>
    LET plain == matchedSignals(message)
        ctx == IF lastResponse = Null THEN <<>>
               ELSE matchContextAwareSignals(message.v, lastResponse)
        added == [k \in 1..Len(ctx) |->
                    IF ctx[k].validated THEN ctx[k].contextWeight ELSE ctx[k].weight]
        boost == [k \in 1..Len(ctx) |->
                    IF ctx[k].validated THEN ctx[k].contextWeight - ctx[k].weight ELSE 0]
        weights == [k \in 1..Len(plain) |-> plain[k].weight] \o added
    IN  /\ locals.totalWeight = SumSeq(weights)
        /\ locals.maxWeight = MaxSeq(weights)
        /\ locals.contextBoost - SumSeq(boost) \in {0, W(10)}
        /\ lastResponse = Null => locals.contextBoost = 0

C14_Witness ==
  /\ locals.path = "scored"
  /\ lastResponse # Null
  /\ \E i, j \in 1..Len(matchContextAwareSignals(message.v, lastResponse)) :
       /\ matchContextAwareSignals(message.v, lastResponse)[i].validated
       /\ matchContextAwareSignals(message.v, lastResponse)[i].contextWeight
            > matchContextAwareSignals(message.v, lastResponse)[i].weight
       /\ ~matchContextAwareSignals(message.v, lastResponse)[j].validated
  /\ locals.contextBoost > 0

\* C16: with a usable record, contextBoost holds 0.1 more than the
\* validated matches give it exactly when the record's code is not empty
\* and the message holds, between two quote characters (\x60, ' or "), a run
\* of identifier characters that is a whole word of the code, at least 3
\* characters long, not starting with a digit and not a keyword of the
\* stop list; otherwise it holds nothing more.
C16_IdentifierOverlap ==
  locals.path = "scored" /\ lastResponse # Null =>
    LET s == message.v
        code == lastResponse.codeWritten
        ctx == matchContextAwareSignals(s, lastResponse)
        validatedBoost == SumSeq([k \in 1..Len(ctx) |->
                            IF ctx[k].validated THEN ctx[k].contextWeight - ctx[k].weight
                            ELSE 0])
        quoteAt(i) == SubSeq(s, i, i) \in {BackTick, "'", "\""}
        quoted == {SubSeq(s, ij[1] + 1, ij[2] - 1) :
                     ij \in {p \in (1..Len(s)) \X (1..Len(s)) :
                               /\ p[2] >= p[1] + 2 /\ quoteAt(p[1]) /\ quoteAt(p[2])
                               /\ \A k \in (p[1] + 1)..(p[2] - 1) :
                                    SubSeq(s, k, k) \in IdentChars}}
        wordAt(k) == k >= 1 /\ k <= Len(code) /\ SubSeq(code, k, k) \in WordChars
        words == {SubSeq(code, ab[1], ab[2]) :
                    ab \in {p \in (1..Len(code)) \X (1..Len(code)) :
                              /\ p[2] >= p[1] + 2
                              /\ \A k \in p[1]..p[2] : wordAt(k)
                              /\ ~wordAt(p[1] - 1) /\ ~wordAt(p[2] + 1)
                              /\ SubSeq(code, p[1], p[1]) \notin Chars(Digits)}}
        overlap == \E w \in quoted \cap words : toLowerCase(w) \notin keywords
    IN  locals.contextBoost - validatedBoost = IF code # "" /\ overlap THEN W(10) ELSE 0

C16_Witness ==
  /\ locals.path = "scored"
  /\ lastResponse # Null
  /\ includes(message.v, "'fooBar'")
  /\ includes(message.v, Code("var"))
  /\ includes(lastResponse.codeWritten, "var fooBar")
  /\ locals.contextBoost = W(35) + W(35) + W(40) + W(10)

C5_CorruptRecordIsNoContext ==
  pc # "idle" /\ stdin.kind = "json" /\ message.t = "str"
    /\ (\/ lastResponseFile.kind # "json"
        \/ lastResponseFile.data.has # RecordFields) =>
      /\ exit = "ok"
      /\ lastResponse = Null
      /\ ~result.hasContext

\* C6, as stated: on every malformed stdin (unreadable, blank, not JSON,
\* the JSON null, an object without message, prompt and content, or a
\* message that is not a string) the hook ends normally and prints nothing.
C6_MalformedInputNeverFails ==
  pc # "idle" /\ (\/ stdin.kind # "json"
                  \/ hookMessage(stdin) = Str("")
                  \/ hookMessage(stdin).t # "str") =>
      /\ exit = "ok"
      /\ stdout = <<>>

(***************************************************************************)
(* Properties of the session-start hook (SpecSession)                      *)
(***************************************************************************)
\* C7, as stated: when patterns.json or pending.json is missing or cannot
\* be parsed, the session-start hook still prints its payload and does not
\* raise.
C7_MissingOrCorruptIsEmpty ==
  pc = "exited" /\ (\/ patternsFile.kind \in {"missing", "garbage"}
                    \/ pendingFile.kind \in {"missing", "garbage"}) =>
      /\ exit = "ok"
      /\ Len(stdout) = 1

\* C20: the rules the session-start hook injects are at most 20 and are
\* the first of the collection ordered by descending score, where score =
\* hitCount * 2 + (1 if createdAt is later than seven days before now, else
\* 0): the ordered collection holds the same rules as the file, no rule
\* left out has a higher score than an injected one.
C20_TopTwenty ==
  pc = "exited" /\ exit = "ok" =>
    LET rank(p) == p.hitCount * 2
                     + (IF p.createdAt > now - 7 * 24 * 60 * 60 * 1000 THEN 1 ELSE 0)
        all == patternsFile.patterns
        ranked == sortedPatterns
        injected == stdout[1].patterns
        n == Len(injected)
    IN  /\ n <= 20
        /\ n = IF Len(all) < 20 THEN Len(all) ELSE 20
        /\ Len(ranked) = Len(all)
        /\ {ranked[k] : k \in 1..Len(ranked)} = {all[k] : k \in 1..Len(all)}
        /\ \A i, j \in 1..Len(ranked) : i < j => rank(ranked[i]) >= rank(ranked[j])
        /\ {injected[k] : k \in 1..n} = {ranked[k] : k \in 1..n}
        /\ \A i \in 1..n : \A j \in (n + 1)..Len(ranked) :
             rank(ranked[j]) <= rank(ranked[i])

C20_Witness ==
  /\ pc = "exited"
  /\ exit = "ok"
  /\ Len(patternsFile.patterns) > 20
  /\ Len(stdout[1].patterns) = 20
  /\ sortedPatterns # patternsFile.patterns
  /\ sortedPatterns[1].hitCount = 3
  /\ sortedPatterns[21].hitCount = 0
  /\ \E i, j \in 1..20 :
       /\ i < j
       /\ sortedPatterns[i].hitCount = sortedPatterns[j].hitCount
       /\ sortedPatterns[i].createdAt > sortedPatterns[j].createdAt

\* C21: two rules of equal score (hitCount * 2, plus 1 if created within the
\* last seven days) keep in the prioritized output the relative order they
\* had in the collection read from patterns.json; in particular, when the
\* later of the two is among the first 20, so is the earlier.
C21_RankingStability ==
  pc = "exited" /\ exit = "ok" =>
    LET rank(p) == p.hitCount * 2
                     + (IF p.createdAt > now - 7 * 24 * 60 * 60 * 1000 THEN 1 ELSE 0)
        all == patternsFile.patterns
        place(p) == CHOOSE k \in 1..Len(sortedPatterns) : sortedPatterns[k] = p
    IN  \A i, j \in 1..Len(all) :
          i < j /\ rank(all[i]) = rank(all[j]) =>
            /\ place(all[i]) < place(all[j])
            /\ place(all[j]) <= 20 => place(all[i]) <= 20

C21_Witness ==
  /\ pc = "exited"
  /\ exit = "ok"
  /\ Len(sortedPatterns) > 20
  /\ sortedPatterns[20].hitCount = sortedPatterns[21].hitCount
  /\ sortedPatterns[20].createdAt = sortedPatterns[21].createdAt
  /\ \E i, j \in 1..Len(patternsFile.patterns) :
       /\ i < j
       /\ patternsFile.patterns[i] = sortedPatterns[20]
       /\ patternsFile.patterns[j] = sortedPatterns[21]
  /\ \E i, j \in 1..Len(patternsFile.patterns) :
       /\ i < j
       /\ patternsFile.patterns[i].hitCount < patternsFile.patterns[j].hitCount

\* C22, as stated: a session-start activation leaves the rule collection it
\* was given unchanged: patterns.json holds what it held before, and the
\* loaded collection (patternsData.patterns) has the contents and the order
\* it was loaded with.
C22_CollectionNotMutated ==
  [][pc = "idle" /\ pc' = "exited" /\ exit' = "ok" =>
       /\ patternsFile' = patternsFile
       /\ sortedPatterns' = patternsFile.patterns]_vars

\* C23, as stated: in the context the session-start hook emits, a rule with
\* a higher ranking score is listed before every rule with a lower score.
C23_HighScoreFirst ==
  pc = "exited" /\ exit = "ok" =>
    LET rank(p) == p.hitCount * 2
                     + (IF p.createdAt > now - 7 * 24 * 60 * 60 * 1000 THEN 1 ELSE 0)
        emitted == stdout[1].patterns
    IN  \A i, j \in 1..Len(emitted) : i < j => rank(emitted[i]) >= rank(emitted[j])

\* C24: every directive the hook prints carries the confidence, as the
\* label HIGH for a confidence of at least 0.8, MEDIUM from 0.6 up to 0.8
\* and LOW below, and as the number to two decimals, and carries every
\* category hint of the DetectionResult in the order of the result.
C24_DirectiveContract ==
  pc = "emitting" /\ exit = "ok" =>
    LET directive == stdout[1]
        c == result.confidence
    IN  /\ Len(stdout) = 1
        /\ directive.confidenceLabel = "HIGH" <=> c >= 80000
        /\ directive.confidenceLabel = "MEDIUM" <=> c >= 60000 /\ c < 80000
        /\ directive.confidenceLabel = "LOW" <=> c < 60000
        /\ directive.confidence * 1000 - c <= 500
        /\ c - directive.confidence * 1000 <= 500
        /\ directive.categoryHints = result.categoryHints

C24_Witness ==
  /\ pc = "emitting"
  /\ exit = "ok"
  /\ stdout[1].confidenceLabel = "MEDIUM"
  /\ stdout[1].categoryHints = <<"imports">>
  /\ result.confidence >= 60000
  /\ result.confidence < 80000

(***************************************************************************)
(* Properties of the hooks over time (SpecTurns)                           *)
(***************************************************************************)
\* C25: a turn end whose transcript holds an assistant entry replaces the
\* stored record by one captured now from the last such entry (its text,
\* without the surrounding white space, and the tools of its tool_use
\* blocks); every other turn end (stdin unusable, no transcript path, no
\* such file, unreadable or empty file, no assistant entry), and every
\* prompt, leaves the stored record as it was.
C25_LatestTurnWins ==
  [][LET transcript == stdin'.transcript.lines
         assistants == {i \in 1..Len(transcript) :
                          transcript[i].json /\ transcript[i].role = "assistant"}
         last == transcript[CHOOSE i \in assistants : \A j \in assistants : j <= i]
         blocks == IF last.isArray THEN last.content ELSE <<>>
         texts == {k \in 1..Len(blocks) : blocks[k].type = "text"}
         tools == {blocks[k].name : k \in {k \in 1..Len(blocks) : blocks[k].type = "tool_use"}}
         stored == lastResponseFile'.data
     IN  /\ pc = "idle" /\ pc' = "stopped" =>
              IF stdin'.kind = "json" /\ stdin'.transcript.kind = "lines" /\ assistants # {}
                THEN /\ lastResponseFile'.kind = "json"
                     /\ stored.has = RecordFields
                     /\ stored.timestamp = now
                     /\ {stored.toolsUsed[k] : k \in 1..Len(stored.toolsUsed)} = tools
                     /\ texts = {} => stored.response = ""
                     /\ \A k \in texts :
                          /\ includes(blocks[k].text, stored.response)
                          /\ stored.response # ""
                          /\ SubSeq(stored.response, 1, 1) \notin {" ", "\n"}
                          /\ SubSeq(stored.response, Len(stored.response),
                                    Len(stored.response)) \notin {" ", "\n"}
                ELSE lastResponseFile' = lastResponseFile
         /\ pc' \in {"idle", "analyzed", "emitting"} => lastResponseFile' = lastResponseFile
    ]_vars

C25_Witness ==
  /\ pc = "stopped"
  /\ exit = "ok"
  /\ stdin.kind = "json"
  /\ Len(stdin.transcript.lines) = 6
  /\ lastResponseFile.data.response = "Done."
  /\ lastResponseFile.data.toolsUsed = <<>>
  /\ lastResponseFile.data.timestamp = now
  /\ earlier # <<>>
  /\ earlier[1].result.hasContext
  /\ earlier[1].lastResponse.toolsUsed = <<"Edit">>
  /\ earlier[1].lastResponse.timestamp < now

\* C26: whatever turn ends, clock advances, session starts and detections
\* came before, a detection reports hasContext only if at its own time the
\* stored record is at most 5 minutes old, and it is then given that
\* record; a record the previous detection used as fresh and that has
\* expired since is not given to this one.
C26_StalenessAtEveryRead ==
  pc \in {"analyzed", "emitting"} =>
    LET stored == lastResponseFile.data
        age == now - stored.timestamp
    IN  /\ result.hasContext =>
             /\ lastResponseFile.kind = "json"
             /\ age <= 5 * 60 * 1000
             /\ lastResponse = stored
        /\ (/\ earlier # <<>>
            /\ earlier[1].result.hasContext
            /\ lastResponseFile.kind = "json"
            /\ earlier[1].lastResponse = stored
            /\ age > 5 * 60 * 1000) =>
             /\ lastResponse = Null
             /\ ~result.hasContext

C26_Witness ==
  /\ pc = "emitting"
  /\ earlier # <<>>
  /\ earlier[1].result.hasContext
  /\ earlier[1].result.confidence > result.confidence
  /\ lastResponseFile.kind = "json"
  /\ earlier[1].lastResponse = lastResponseFile.data
  /\ now - lastResponseFile.data.timestamp = 5 * 60 * 1000 + 1
  /\ ~result.hasContext

\* C27: a session start deletes last-response.json when it cannot be
\* parsed or holds a record captured more than 30 minutes ago and leaves
\* it as it is otherwise, so that no record older than 30 minutes is
\* stored afterwards; a detection that finds a stored record older than 5
\* minutes (kept by the cleanup or not yet seen by one) does not use it.
C27_SessionCleanup ==
  [][/\ pc = "idle" /\ pc' = "exited" /\ stdout' # <<>> =>
          /\ IF \/ lastResponseFile.kind = "garbage"
                \/ /\ lastResponseFile.kind = "json"
                   /\ now - lastResponseFile.data.timestamp > 30 * 60 * 1000
               THEN lastResponseFile'.kind = "missing"
               ELSE lastResponseFile' = lastResponseFile
          /\ lastResponseFile'.kind = "json" =>
               now - lastResponseFile'.data.timestamp <= 30 * 60 * 1000
     /\ (/\ pc' \in {"analyzed", "emitting"}
         /\ lastResponseFile'.kind = "json"
         /\ now' - lastResponseFile'.data.timestamp > 5 * 60 * 1000) =>
          /\ lastResponse' = Null
          /\ ~result'.hasContext
    ]_vars

C27_Witness ==
  /\ pc = "exited"
  /\ exit = "ok"
  /\ stdout # <<>>
  /\ lastResponseFile.kind = "json"
  /\ lastResponseFile.data.timestamp > 0
  /\ now - lastResponseFile.data.timestamp > 5 * 60 * 1000
  /\ now - lastResponseFile.data.timestamp < 30 * 60 * 1000

\* C28, as stated: the message-analysis hook prints a directive exactly
\* when the DetectionResult has isCorrection true and skipLearning false,
\* never for a message shorter than 15 characters or one matching a skip
\* trigger, and it reads patterns.json only in an activation that prints.
C28_EmitsIffCorrection ==
  pc # "idle" =>
    LET emitted == stdout # <<>>
    IN  /\ pc \in {"analyzed", "emitting"} =>
             (emitted <=> result.isCorrection /\ ~result.skipLearning)
        /\ pc = "exited" => ~emitted
        /\ emitted => /\ message.t = "str"
                      /\ Len(message.v) >= 15
                      /\ ~skipDetector(message)
        /\ pc = "emitting" <=> emitted

====
